---- MODULE Spec2Model ----
(***************************************************************************)
(* A model of XR_APILAYER_NOVENDOR_toolkit/d3d12.cpp: the Direct3D 12      *)
(* binding of the toolkit's graphics abstraction (texture wrapper with its *)
(* per-slice view slots, compute shader wrapper, GPU timer, device, and    *)
(* the interop function WrapD3D12Texture).                                 *)
(*                                                                         *)
(* The variable `call` records the last call made on the API (operation,   *)
(* arguments, result, error); the variables watch, firstRet, created,      *)
(* lastSet, timerOpen and lastInterval are history variables: they record  *)
(* what the caller and the GPU did, not fields of the program.             *)
(***************************************************************************)
EXTENDS Integers, Sequences, FiniteSets

\* ------------------------------------------------------------------ bounds
MaxArraySize == 2       \* largest XrSwapchainCreateInfo.arraySize wrapped
MaxViews == 3           \* cap on view instances ever allocated
MaxGroups == 2          \* largest thread-group extent used
MaxDuration == 2        \* longest GPU interval, in timer units
MaxNativeCode == 95     \* native format codes 0..MaxNativeCode are classified

\* ------------------------------------------------- values of the program
\* DXGI_FORMAT enumerators used by the format mapper.
DXGI_FORMAT_R32G32B32A32_FLOAT == 2
DXGI_FORMAT_R16G16B16A16_UNORM == 11
DXGI_FORMAT_R8G8B8A8_UNORM_SRGB == 29
DXGI_FORMAT_B8G8R8A8_UNORM_SRGB == 91
DXGI_FORMAT_B8G8R8X8_UNORM_SRGB == 93

\* toolkit::graphics::TextureFormat values a caller may pass.  The switch of
\* getTextureFormat enumerates the first two.
TextureFormats ==
    {"R32G32B32A32_FLOAT", "R16G16B16A16_UNORM", "R10G10B10A2_UNORM", "R8G8B8A8_UNORM"}

\* The devices a caller may hand to WrapD3D12Texture: the D3D12Device of this
\* file and a device of another backend.
Devices == {"D3D12Device", "D3D11Device"}

\* IDevice::getApi().  D3D12Device answers Api::D3D12.
getApi(device) == IF device = "D3D12Device" THEN "D3D12" ELSE "D3D11"

\* The three view kinds of D3D12Texture, named after the members that hold them.
Kinds == {"ShaderResource", "UnorderedAccess", "RenderTarget"}

\* An empty std::shared_ptr.
NullPtr == 0
\* What reading past the end of a std::vector may yield.
GarbagePtr == -1
\* firstRet before any request for the followed key.
Unrequested == [seen |-> FALSE, ret |-> NullPtr]

\* The native resources a caller may hand to WrapD3D12Texture.
Resources == {"left", "right"}

\* The optional debug names a caller passes ("" is std::nullopt).
DebugNames == {"", "eye"}

\* Errors.  The code throws std::runtime_error with these messages.
NoError == "none"
DeviceMismatchError == "Not a D3D12 device"
UnsupportedFormatError == "Unknown texture format"
IndexOutOfRangeError == "IndexOutOfRangeError"
NoShaderBoundError == "NoShaderBoundError"
\* The process died (an access violation): the outcome of undefined behaviour.
Crash == "crash"

VARIABLES
    tex,            \* the D3D12Texture last returned by WrapD3D12Texture
    m_view,         \* kind -> m_shaderResourceView / m_unorderedAccessView / m_renderTargetView
    m_subView,      \* kind -> m_shaderResourceSubView / ... (slice s at index s + 1)
    res,            \* the native ID3D12Resources: debug name set, GetDesc() called
    nextViewId,     \* the next view instance an allocation would yield
    watch,          \* history: the (kind, key) of the texture that is followed
    firstRet,       \* history: what the first request for the followed key returned
    created,        \* history: kind -> key -> number of views created
    cs,             \* the D3D12ComputeShader object
    m_context,      \* D3D12Device::m_context: the commands recorded so far
    lastSet,        \* history: the kind of shader last passed to setShader
    timer,          \* whether a D3D12GpuTimer exists
    timerOpen,      \* history: start() was called with no stop() since
    lastInterval,   \* history: duration of the last completed interval (0: none)
    call            \* the last call: operation, arguments, result

vars == <<tex, m_view, m_subView, res, nextViewId, watch, firstRet, created,
          cs, m_context, lastSet, timer, timerOpen, lastInterval, call>>

texVars == <<tex, m_view, m_subView, res, nextViewId, watch, firstRet, created>>
devVars == <<cs, m_context, lastSet, timer, timerOpen, lastInterval>>

NoCall ==
    [op |-> "none", kind |-> "none", dev |-> "none", name |-> "", num |-> 0,
     res |-> "none", flag |-> FALSE, groups |-> <<0, 0, 0>>, ret |-> 0,
     bret |-> FALSE, err |-> NoError, first |-> FALSE, repeat |-> FALSE, open |-> FALSE]

NoTexture ==
    [exists |-> FALSE, m_device |-> "none", arraySize |-> 0, m_texture |-> "none",
     m_textureDesc |-> "none"]

NoComputeShader ==
    [exists |-> FALSE, m_device |-> "none", m_computeShader |-> "none",
     m_threadGroups |-> <<0, 0, 0>>]

\* Keys of the view slots of a texture: 0 is the view of the no-argument
\* getters, s + 1 is slice s.
Keys(arraySize) == 0..arraySize

crashed == call.err = Crash

Init ==
    /\ tex = NoTexture
    /\ m_view = [k \in Kinds |-> NullPtr]
    /\ m_subView = [k \in Kinds |-> <<>>]
    /\ res = [t \in Resources |-> [name |-> "", descRead |-> FALSE]]
    /\ nextViewId = 1
    /\ watch = [kind |-> "ShaderResource", key |-> 0]
    /\ firstRet = Unrequested
    /\ created = [k \in Kinds |-> [i \in Keys(0) |-> 0]]
    /\ cs = NoComputeShader
    /\ m_context = <<>>
    /\ lastSet = "none"
    /\ timer = FALSE
    /\ timerOpen = FALSE
    /\ lastInterval = 0
    /\ call = NoCall

\* ------------------------------------------------------------ D3D12Texture

\* D3D12Texture::D3D12Texture: the members are set and the three sub-view
\* vectors are resized to info.arraySize empty handles.  The history starts
\* to follow one (kind, key) of the new texture, any of them.
D3D12Texture(device, arraySize, textureDesc, texture) ==
    /\ tex' = [exists |-> TRUE, m_device |-> device, arraySize |-> arraySize,
               m_texture |-> texture, m_textureDesc |-> textureDesc]
    /\ m_view' = [k \in Kinds |-> NullPtr]
    /\ m_subView' = [k \in Kinds |-> [i \in 1..arraySize |-> NullPtr]]
    /\ \E wk \in Kinds, wi \in Keys(arraySize) : watch' = [kind |-> wk, key |-> wi]
    /\ firstRet' = Unrequested
    /\ created' = [k \in Kinds |-> [i \in Keys(arraySize) |-> 0]]

\* ID3D12Resource::SetName(debugName) on `texture`.
SetName(texture, debugName) == [res EXCEPT ![texture].name = debugName]

\* ID3D12Resource::GetDesc() on `texture`, in the resource state r.
GetDesc(r, texture) == [r EXCEPT ![texture].descRead = TRUE]

\* WrapD3D12Texture with the device check made after the resource was named.
WrapD3D12Texture_lateCheck(device, arraySize, texture, debugName) ==
    /\ ~crashed
    /\ LET named == IF debugName # "" THEN SetName(texture, debugName) ELSE res
       IN  IF getApi(device) # "D3D12"
           THEN /\ res' = named
                /\ call' = [NoCall EXCEPT !.op = "WrapD3D12Texture", !.dev = device,
                                          !.num = arraySize, !.name = debugName,
                                          !.res = texture, !.err = DeviceMismatchError]
                /\ UNCHANGED <<tex, m_view, m_subView, nextViewId, watch, firstRet,
                               created>>
           ELSE /\ res' = GetDesc(named, texture)
                /\ D3D12Texture(device, arraySize, "desc", texture)
                /\ call' = [NoCall EXCEPT !.op = "WrapD3D12Texture", !.dev = device,
                                          !.num = arraySize, !.name = debugName,
                                          !.res = texture, !.bret = TRUE]
                /\ UNCHANGED nextViewId
    /\ UNCHANGED devVars

\* toolkit::graphics::WrapD3D12Texture(device, info, texture, debugName):
\* throws when the device is not a D3D12 one; otherwise names the resource
\* (when a name is given), reads its descriptor and returns a new D3D12Texture.
\* call.bret says whether a texture was returned.
WrapD3D12Texture(device, arraySize, texture, debugName) ==
    /\ ~crashed
    /\ IF getApi(device) # "D3D12"
       THEN /\ call' = [NoCall EXCEPT !.op = "WrapD3D12Texture", !.dev = device,
                                      !.num = arraySize, !.name = debugName,
                                      !.res = texture, !.err = DeviceMismatchError]
            /\ UNCHANGED texVars
       ELSE /\ LET named == IF debugName # "" THEN SetName(texture, debugName) ELSE res
               IN  res' = GetDesc(named, texture)
            /\ D3D12Texture(device, arraySize, "desc", texture)
            /\ call' = [NoCall EXCEPT !.op = "WrapD3D12Texture", !.dev = device,
                                      !.num = arraySize, !.name = debugName,
                                      !.res = texture, !.bret = TRUE]
            /\ UNCHANGED nextViewId
    /\ UNCHANGED devVars

\* D3D12Texture::getDevice().
getDevice == tex.m_device

\* D3D12Texture::getNativePtr().
getNativePtr == tex.m_texture

\* D3D12Texture::isArray.
isArray == FALSE

IsArray ==
    /\ ~crashed
    /\ tex.exists
    /\ call' = [NoCall EXCEPT !.op = "isArray", !.bret = isArray]
    /\ UNCHANGED <<texVars, devVars>>

\* A get*ViewInternal that makes a new view on every request.
getViewInternal_recreate(view, fresh) == [slot |-> fresh, ret |-> fresh]

\* D3D12Texture::getShaderInputViewInternal(shaderResourceView, slice): the
\* branch taken on an empty handle is empty, the handle is returned as it is.
\* `fresh` is the instance an allocation would yield; slot is the handle's
\* value afterwards (it is passed by reference).
getShaderInputViewInternal(view, fresh) ==
    IF view = NullPtr THEN [slot |-> view, ret |-> view] ELSE [slot |-> view, ret |-> view]

\* D3D12Texture::getComputeShaderOutputViewInternal(unorderedAccessView, slice).
getComputeShaderOutputViewInternal(view, fresh) ==
    IF view = NullPtr THEN [slot |-> view, ret |-> view] ELSE [slot |-> view, ret |-> view]

\* D3D12Texture::getRenderTargetViewInternal(renderTargetView, slice).
getRenderTargetViewInternal(view, fresh) ==
    IF view = NullPtr THEN [slot |-> view, ret |-> view] ELSE [slot |-> view, ret |-> view]

getViewInternal(kind, view, fresh) ==
    CASE kind = "ShaderResource" -> getShaderInputViewInternal(view, fresh)
      [] kind = "UnorderedAccess" -> getComputeShaderOutputViewInternal(view, fresh)
      [] kind = "RenderTarget" -> getRenderTargetViewInternal(view, fresh)

Watched(kind, key) == watch.kind = kind /\ watch.key = key

\* The history and the allocator after a request for (kind, key) answered r.
Requested(kind, key, r) ==
    LET made == r.ret = nextViewId \/ r.slot = nextViewId
    IN  /\ nextViewId' = IF made THEN nextViewId + 1 ELSE nextViewId
        /\ created' = [created EXCEPT ![kind][key] = @ + (IF made THEN 1 ELSE 0)]
        /\ firstRet' = IF Watched(kind, key) /\ ~firstRet.seen
                       THEN [seen |-> TRUE, ret |-> r.ret] ELSE firstRet
        /\ UNCHANGED watch

\* getShaderInputView() / getComputeShaderOutputView() / getRenderTargetView():
\* the view of the whole resource, held in m_<kind>View.  call.first and
\* call.repeat say that the request is the first, or a later one, for the
\* (kind, key) the history follows.
GetView(kind) ==
    /\ ~crashed
    /\ tex.exists
    /\ nextViewId <= MaxViews
    /\ LET r == getViewInternal(kind, m_view[kind], nextViewId)
       IN  /\ m_view' = [m_view EXCEPT ![kind] = r.slot]
           /\ Requested(kind, 0, r)
           /\ call' = [NoCall EXCEPT !.op = "getView", !.kind = kind, !.ret = r.ret,
                           !.first = Watched(kind, 0) /\ ~firstRet.seen,
                           !.repeat = Watched(kind, 0) /\ firstRet.seen]
    /\ UNCHANGED <<tex, m_subView, res, devVars>>

\* getShaderInputView(slice) / getComputeShaderOutputView(slice) /
\* getRenderTargetView(slice) with slice < arraySize: the view of one slice,
\* held in m_<kind>SubView[slice].
GetSliceView(kind, slice) ==
    /\ ~crashed
    /\ tex.exists
    /\ slice < tex.arraySize
    /\ nextViewId <= MaxViews
    /\ LET r == getViewInternal(kind, m_subView[kind][slice + 1], nextViewId)
       IN  /\ m_subView' = [m_subView EXCEPT ![kind][slice + 1] = r.slot]
           /\ Requested(kind, slice + 1, r)
           /\ call' = [NoCall EXCEPT !.op = "getSliceView", !.kind = kind,
                           !.num = slice, !.ret = r.ret,
                           !.first = Watched(kind, slice + 1) /\ ~firstRet.seen,
                           !.repeat = Watched(kind, slice + 1) /\ firstRet.seen]
    /\ UNCHANGED <<tex, m_view, res, devVars>>

\* The same getters with slice >= arraySize.  std::vector::operator[] makes no
\* bounds check: the read is past the end of the vector, which is undefined.
\* The handle read there is empty or garbage, or the process dies.
GetSliceViewOutOfRange(kind, slice) ==
    /\ ~crashed
    /\ tex.exists
    /\ slice >= tex.arraySize
    /\ \E outcome \in {"null", "garbage", "crash"} :
          call' = [NoCall EXCEPT !.op = "getSliceView", !.kind = kind, !.num = slice,
                                 !.ret = IF outcome = "garbage" THEN GarbagePtr
                                         ELSE NullPtr,
                                 !.err = IF outcome = "crash" THEN Crash ELSE NoError]
    /\ UNCHANGED <<texVars, devVars>>

NextTexture ==
    \/ \E d \in Devices, n \in 1..MaxArraySize, t \in Resources, nm \in DebugNames :
          WrapD3D12Texture(d, n, t, nm)
    \/ IsArray
    \/ \E k \in Kinds : GetView(k)
    \/ \E k \in Kinds, s \in 0..MaxArraySize : GetSliceView(k, s)
    \/ \E k \in Kinds, s \in 0..MaxArraySize : GetSliceViewOutOfRange(k, s)

SpecTexture == Init /\ [][NextTexture]_vars

\* ------------------------------------------------------ D3D12ComputeShader

\* The thread-group extents a caller passes.
ThreadGroups == {<<1, 1, 1>>, <<MaxGroups, 1, 1>>, <<MaxGroups, MaxGroups, 1>>}

\* D3D12ComputeShader::D3D12ComputeShader(device, computeShader, threadGroups).
\* Nothing in this file constructs one (createComputeShader returns an empty
\* handle); the class is modelled as it stands.
D3D12ComputeShader(threadGroups) ==
    /\ ~crashed
    /\ cs' = [exists |-> TRUE, m_device |-> "D3D12Device", m_computeShader |-> "pso",
              m_threadGroups |-> threadGroups]
    /\ call' = [NoCall EXCEPT !.op = "D3D12ComputeShader", !.groups = threadGroups,
                              !.bret = TRUE]
    /\ UNCHANGED <<texVars, m_context, lastSet, timer, timerOpen, lastInterval>>

\* D3D12ComputeShader::updateThreadGroups(threadGroups).
updateThreadGroups(threadGroups) ==
    /\ ~crashed
    /\ cs.exists
    /\ cs' = [cs EXCEPT !.m_threadGroups = threadGroups]
    /\ call' = [NoCall EXCEPT !.op = "updateThreadGroups", !.groups = threadGroups]
    /\ UNCHANGED <<texVars, m_context, lastSet, timer, timerOpen, lastInterval>>

\* D3D12ComputeShader::getThreadGroups().
getThreadGroups == cs.m_threadGroups

\* ------------------------------------------------------------ D3D12GpuTimer

\* D3D12Device::createTimer(): a new D3D12GpuTimer.
createTimer ==
    /\ ~crashed
    /\ timer' = TRUE
    /\ timerOpen' = FALSE
    /\ lastInterval' = 0
    /\ call' = [NoCall EXCEPT !.op = "createTimer", !.bret = TRUE]
    /\ UNCHANGED <<texVars, cs, m_context, lastSet>>

\* D3D12GpuTimer::start(): the body is empty.  The history records that an
\* interval was opened.
start ==
    /\ ~crashed
    /\ timer
    /\ timerOpen' = TRUE
    /\ call' = [NoCall EXCEPT !.op = "start"]
    /\ UNCHANGED <<texVars, cs, m_context, lastSet, timer, lastInterval>>

\* D3D12GpuTimer::stop(): the body is empty.  The history records the
\* interval that was closed and the time d the GPU spent in it.
stop ==
    /\ ~crashed
    /\ timer
    /\ IF timerOpen
       THEN \E d \in 1..MaxDuration : lastInterval' = d
       ELSE lastInterval' = lastInterval
    /\ timerOpen' = FALSE
    /\ call' = [NoCall EXCEPT !.op = "stop"]
    /\ UNCHANGED <<texVars, cs, m_context, lastSet, timer>>

\* The value query() gives when no interval is ready.
NotReady == 0

\* A query that answers with the last completed interval.
query_lastInterval(reset) == lastInterval

\* D3D12GpuTimer::query(reset): the value returned.
query(reset) == NotReady

Query(reset) ==
    /\ ~crashed
    /\ timer
    /\ call' = [NoCall EXCEPT !.op = "query", !.flag = reset, !.ret = query(reset),
                              !.open = timerOpen]
    /\ UNCHANGED <<texVars, devVars>>

\* -------------------------------------------------------------- D3D12Device

\* A getTextureFormat that answers DXGI_FORMAT_UNKNOWN for a format it does
\* not know.
getTextureFormat_unknown(format) ==
    CASE format = "R32G32B32A32_FLOAT" ->
            [ret |-> DXGI_FORMAT_R32G32B32A32_FLOAT, err |-> NoError]
      [] format = "R16G16B16A16_UNORM" ->
            [ret |-> DXGI_FORMAT_R16G16B16A16_UNORM, err |-> NoError]
      [] OTHER -> [ret |-> 0, err |-> NoError]

\* D3D12Device::getTextureFormat(format): the code returned, or the error thrown.
getTextureFormat(format) ==
    CASE format = "R32G32B32A32_FLOAT" ->
            [ret |-> DXGI_FORMAT_R32G32B32A32_FLOAT, err |-> NoError]
      [] format = "R16G16B16A16_UNORM" ->
            [ret |-> DXGI_FORMAT_R16G16B16A16_UNORM, err |-> NoError]
      [] OTHER -> [ret |-> 0, err |-> UnsupportedFormatError]

\* D3D12Device::isTextureFormatSRGB(format).  The codes are DXGI_FORMAT
\* values (32 bits), which the cast (DXGI_FORMAT)format leaves as they are.
isTextureFormatSRGB(format) ==
    CASE format = DXGI_FORMAT_R8G8B8A8_UNORM_SRGB -> TRUE
      [] format = DXGI_FORMAT_B8G8R8A8_UNORM_SRGB -> TRUE
      [] format = DXGI_FORMAT_B8G8R8X8_UNORM_SRGB -> TRUE
      [] OTHER -> FALSE

GetTextureFormat(format) ==
    /\ ~crashed
    /\ call' = [NoCall EXCEPT !.op = "getTextureFormat", !.name = format,
                              !.ret = getTextureFormat(format).ret,
                              !.err = getTextureFormat(format).err]
    /\ UNCHANGED <<texVars, devVars>>

IsTextureFormatSRGB(format) ==
    /\ ~crashed
    /\ call' = [NoCall EXCEPT !.op = "isTextureFormatSRGB", !.num = format,
                              !.bret = isTextureFormatSRGB(format)]
    /\ UNCHANGED <<texVars, devVars>>

\* D3D12Device::createComputeShader(...): returns an empty handle.
createComputeShader(threadGroups) ==
    /\ ~crashed
    /\ call' = [NoCall EXCEPT !.op = "createComputeShader", !.groups = threadGroups,
                              !.bret = FALSE]
    /\ UNCHANGED <<texVars, devVars>>

\* D3D12Device::setShader(std::shared_ptr<IQuadShader>): the body is empty.
\* The history records the shader passed.
setShaderQuad ==
    /\ ~crashed
    /\ lastSet' = "quad"
    /\ call' = [NoCall EXCEPT !.op = "setShader", !.kind = "quad"]
    /\ UNCHANGED <<texVars, cs, m_context, timer, timerOpen, lastInterval>>

\* D3D12Device::setShader(std::shared_ptr<IComputeShader>): the body is empty.
setShaderCompute ==
    /\ ~crashed
    /\ lastSet' = "compute"
    /\ call' = [NoCall EXCEPT !.op = "setShader", !.kind = "compute"]
    /\ UNCHANGED <<texVars, cs, m_context, timer, timerOpen, lastInterval>>

\* D3D12Device::dispatchShader(doNotClear): the body is empty: nothing is
\* recorded in m_context and nothing is thrown.
dispatchShader(doNotClear) ==
    /\ ~crashed
    /\ call' = [NoCall EXCEPT !.op = "dispatchShader", !.flag = doNotClear,
                              !.kind = lastSet]
    /\ UNCHANGED <<texVars, devVars>>

\* What the device holds of a bound shader: its members are the native
\* device, the queue, the command list m_context and the adapter name.  The
\* shader in use is the pipeline state last set on m_context.
ActiveShader ==
    LET sets == {i \in DOMAIN m_context : m_context[i].cmd = "SetPipelineState"}
    IN  IF sets = {} THEN "none"
        ELSE m_context[CHOOSE i \in sets : \A j \in sets : j <= i].shader

\* The thread-group extents of the last Dispatch recorded in m_context
\* (<<0, 0, 0>> when there is none).
DispatchedGroups ==
    LET ds == {i \in DOMAIN m_context : m_context[i].cmd = "Dispatch"}
    IN  IF ds = {} THEN <<0, 0, 0>>
        ELSE m_context[CHOOSE i \in ds : \A j \in ds : j <= i].groups

NextDevice ==
    \/ \E g \in ThreadGroups : D3D12ComputeShader(g)
    \/ \E g \in ThreadGroups : updateThreadGroups(g)
    \/ \E g \in ThreadGroups : createComputeShader(g)
    \/ createTimer
    \/ start
    \/ stop
    \/ \E r \in BOOLEAN : Query(r)
    \/ \E f \in TextureFormats : GetTextureFormat(f)
    \/ \E c \in 0..MaxNativeCode : IsTextureFormatSRGB(c)
    \/ setShaderQuad
    \/ setShaderCompute
    \/ \E b \in BOOLEAN : dispatchShader(b)

SpecDevice == Init /\ [][NextDevice]_vars

\* The texture part (SpecTexture) and the device part (SpecDevice) share no
\* state of the program: no action of one reads or writes a variable of the
\* other, `call` apart.  Each part is checked under its own specification.

\* ==================================================================== claims

\* The request recorded in `call` is a view request for a key of the texture.
ValidViewRequest ==
    \/ call.op = "getView"
    \/ call.op = "getSliceView" /\ call.num < tex.arraySize

\* The slot of the view cache the request recorded in `call` reads.
RequestedSlot ==
    IF call.op = "getView" THEN m_view[call.kind] ELSE m_subView[call.kind][call.num + 1]

\* C1: view-cache memoization.  For every view kind and every key of the
\* texture (the default view or a slice below arraySize) at most one view was
\* ever created, and a request for a key that was requested before returns
\* the very handle the first request for that key returned.
C1_ViewMemoized ==
    /\ \A k \in Kinds : \A i \in DOMAIN created[k] : created[k][i] <= 1
    /\ (ValidViewRequest /\ call.repeat) => call.ret = firstRet.ret

\* C1: a second request for the render-target view of slice 1 was answered.
C1_RepeatedRequest ==
    /\ call.op = "getSliceView" /\ call.kind = "RenderTarget" /\ call.num = 1
    /\ call.num < tex.arraySize
    /\ call.repeat

\* C2: lazy creation on first access.  A texture just constructed holds no
\* view, and the first request for a valid (kind, key) returns an actual view
\* (not an empty handle), created for that key and held in its slot.
C2_FirstRequestCreatesView ==
    /\ (call.op = "WrapD3D12Texture" /\ call.bret) =>
          \A k \in Kinds :
             /\ m_view[k] = NullPtr
             /\ \A i \in DOMAIN m_subView[k] : m_subView[k][i] = NullPtr
    /\ (ValidViewRequest /\ call.first) =>
          /\ call.ret # NullPtr
          /\ RequestedSlot = call.ret
          /\ created[watch.kind][watch.key] = 1

\* C3: out-of-range slice rejection.  A slice getter called with
\* slice >= arraySize fails with IndexOutOfRangeError, returns no view and
\* leaves the view cache as it was.
C3_OutOfRangeSliceRejected ==
    [][(call'.op = "getSliceView" /\ call'.num >= tex.arraySize) =>
          /\ call'.err = IndexOutOfRangeError
          /\ call'.ret = NullPtr
          /\ m_view' = m_view /\ m_subView' = m_subView]_vars

\* C6: the device check of WrapD3D12Texture.  Called with a device whose API
\* is not D3D12 it fails with the device-mismatch error, returns no texture
\* and leaves the native resources untouched (no name set, no descriptor
\* read); called with a D3D12 device it returns a texture whose getDevice()
\* is that device and whose native pointer is the resource supplied.
C6_WrapChecksDevice ==
    [][call'.op = "WrapD3D12Texture" =>
          IF getApi(call'.dev) # "D3D12"
          THEN /\ call'.err = DeviceMismatchError
               /\ ~call'.bret
               /\ res' = res
               /\ tex' = tex
          ELSE /\ call'.err = NoError
               /\ call'.bret
               /\ tex'.exists
               /\ getDevice' = call'.dev
               /\ getNativePtr' = call'.res]_vars

\* C6: a wrap with a device of another API and a debug name was refused,
\* after a texture was wrapped successfully, on a resource still unnamed.
C6_MismatchRefused ==
    /\ call.op = "WrapD3D12Texture"
    /\ getApi(call.dev) # "D3D12"
    /\ call.name # ""
    /\ call.err = DeviceMismatchError
    /\ res[call.res].name = ""
    /\ tex.exists

\* C9: isArray() is true exactly when the arraySize the texture was
\* constructed with is greater than 1.
C9_IsArrayIffArraySizeAboveOne ==
    call.op = "isArray" => (call.bret <=> tex.arraySize > 1)

\* C4: dispatchShader is only valid from a bound state.  With no setShader
\* call made yet it fails with NoShaderBoundError and records no GPU work;
\* after a setShader call it succeeds and that shader stays bound.
C4_DispatchOnlyWhenBound ==
    call.op = "dispatchShader" =>
       IF lastSet = "none"
       THEN call.err = NoShaderBoundError /\ m_context = <<>>
       ELSE call.err = NoError /\ ActiveShader = lastSet

\* C5: at most one shader kind is active.  The active shader of the device
\* is the one passed to the most recent setShader call.
C5_ActiveShaderIsLastSet ==
    ActiveShader = lastSet

\* C7: updateThreadGroups(g) leaves the shader with the extents g and with
\* the program and device it was constructed with, and a dispatch with the
\* compute shader bound dispatches the extents stored by the last update.
C7_DispatchUsesUpdatedGroups ==
    /\ call.op = "updateThreadGroups" =>
          /\ getThreadGroups = call.groups
          /\ cs.m_computeShader = "pso"
          /\ cs.m_device = "D3D12Device"
    /\ (call.op = "dispatchShader" /\ cs.exists /\ lastSet = "compute") =>
          DispatchedGroups = getThreadGroups

\* C8: the not-ready value of the GPU timer.  query(reset = true) made while
\* a start() has no matching stop() returns the not-ready value 0, whatever
\* interval was completed before.
C8_OpenIntervalQueryNotReady ==
    (call.op = "query" /\ call.flag /\ call.open) => call.ret = NotReady

\* C8: query(true) was made after start() with no stop(), an earlier
\* interval having been completed.
C8_QueryDuringOpenInterval ==
    /\ call.op = "query" /\ call.flag /\ call.open
    /\ lastInterval > 0

\* C10: getTextureFormat returns the native code of R32G32B32A32_FLOAT and of
\* R16G16B16A16_UNORM and fails with the unsupported-format error for every
\* other format; the codes it returns are not sRGB, and isTextureFormatSRGB
\* is true of the three 8-bit sRGB codes and of no other code.
C10_FormatMapping ==
    /\ call.op = "getTextureFormat" =>
          /\ call.name = "R32G32B32A32_FLOAT" =>
                call.err = NoError /\ call.ret = DXGI_FORMAT_R32G32B32A32_FLOAT
          /\ call.name = "R16G16B16A16_UNORM" =>
                call.err = NoError /\ call.ret = DXGI_FORMAT_R16G16B16A16_UNORM
          /\ call.name \notin {"R32G32B32A32_FLOAT", "R16G16B16A16_UNORM"} =>
                call.err = UnsupportedFormatError
          /\ call.err = NoError => ~isTextureFormatSRGB(call.ret)
    /\ call.op = "isTextureFormatSRGB" =>
          (call.bret <=> call.num \in {DXGI_FORMAT_R8G8B8A8_UNORM_SRGB,
                                       DXGI_FORMAT_B8G8R8A8_UNORM_SRGB,
                                       DXGI_FORMAT_B8G8R8X8_UNORM_SRGB})

\* C10: getTextureFormat was called with a format its switch does not name.
C10_UnsupportedFormatAsked ==
    /\ call.op = "getTextureFormat"
    /\ call.name = "R10G10B10A2_UNORM"
    /\ call.err = UnsupportedFormatError

====
